---------------------------- MODULE Spec2Model ----------------------------
(***************************************************************************)
(* easygit npm wrapper: the postinstall script that downloads and unpacks  *)
(* the prebuilt binary, and the two launcher scripts that delegate to it.  *)
(*                                                                         *)
(*   installer      src/unnamed/part_000                                   *)
(*   bin launcher   src/npm/bin/easygit.js                                 *)
(*   root launcher  src/unnamed/part_001                                   *)
(*                                                                         *)
(* One host (platform, arch, environment variables, package version) is    *)
(* fixed per behaviour.  Programs run one at a time on a shared            *)
(* filesystem: from "idle" an install run or a launcher run is started,    *)
(* runs to "done", and the next one may start.                             *)
(***************************************************************************)
EXTENDS Integers, Sequences, FiniteSets, TLC

VARIABLES
    rawPlatform,    \* process.platform
    rawArch,        \* process.arch
    skipEnv,        \* process.env.EASYGIT_SKIP_POSTINSTALL
    hostEnv,        \* process.env.EASYGIT_BINARY_HOST
    pkgVersion,     \* pkg.version
    fs,             \* the paths that exist on disk
    prog,           \* "idle", "install", "launcher_bin" or "launcher_root"
    pc,             \* its position
    runs,           \* programs started so far
    fsAtStart,      \* fs when the current run started
    redirects,      \* fetch's redirects argument of the request in flight
    requests,       \* https.get calls of the current run
    hops,           \* 3xx-with-Location responses received in the current run
    lastStatus,     \* statusCode of the last response of the current run
    lastLocation,   \* whether that response carried a Location header
    archive,        \* the archive's write stream: "none", "open", "finished", "closed"
    chmods,         \* fs.chmodSync calls of the current run
    spawned,        \* child processes spawned by the current run
    spawnedPath,    \* the launcher's spawn target
    spawnOk,        \* whether the launcher's child process could be started
    childCode,      \* the launcher child's 'exit' code argument
    childSignal,    \* the launcher child's 'exit' signal argument
    log,            \* lines printed by the current run
    outcome,        \* how the current run ended
    exitStatus,     \* status the process exited with (NoCode: it did not exit)
    termSignal      \* signal the process was terminated by ("null": none)

env == <<rawPlatform, rawArch, skipEnv, hostEnv, pkgVersion>>
net == <<redirects, requests, hops, lastStatus, lastLocation>>
child == <<spawnedPath, spawnOk, childCode, childSignal>>
inst == <<archive, chmods>>
vars == <<rawPlatform, rawArch, skipEnv, hostEnv, pkgVersion, fs, prog, pc, runs,
          fsAtStart, redirects, requests, hops, lastStatus, lastLocation, spawned,
          spawnedPath, spawnOk, childCode, childSignal, archive, chmods, log, outcome,
          exitStatus, termSignal>>

(***************************************************************************)
(* Bounds of the model.                                                    *)
(***************************************************************************)
MaxRuns == 2              \* programs run one after the other
MaxServerRedirects == 8   \* 3xx-with-Location answers the server gives in one run
MaxExitCode == 3          \* the delegate binary exits with 0..MaxExitCode
MaxExtractCode == 2       \* tar / powershell exit with 0..MaxExtractCode

(***************************************************************************)
(* JavaScript values.                                                      *)
(***************************************************************************)
NoCode == -1              \* null: an 'exit' event's code when a signal ended the child
Undefined == -2           \* undefined
NoSignal == "null"        \* null: an 'exit' event's signal when the child exited
UNSET == "<undefined>"    \* an environment variable that is not set

RawPlatforms == {"darwin", "linux", "win32", "freebsd"}
RawArchs == {"x64", "arm64", "ia32"}
SkipValues == {UNSET, "", "0", "true", "1"}
HostValues == {UNSET, "", "https://h"}
Versions == {"1.2.3", "0.4.0"}
Signals == {"SIGTERM", "SIGINT", "SIGKILL"}
Statuses == {200, 302, 404, 500}

\* Truthiness of a string-or-undefined value.
Truthy(v) == v # UNSET /\ v # ""

(***************************************************************************)
(* Installer, top-level constants (part_000 lines 9-43).                   *)
(***************************************************************************)
\* Mutant: the variable is tested for truthiness instead of equality with '1'.
SKIP_Truthy == Truthy(skipEnv)

SKIP == skipEnv = "1"

\* PLATFORM_MAP[p]; UNSET when p is no key of the object.
PLATFORM_MAP(p) ==
    CASE p = "darwin" -> "macos"
      [] p = "linux" -> "linux"
      [] p = "win32" -> "windows"
      [] OTHER -> UNSET

ARCH_MAP(a) ==
    CASE a = "x64" -> "x64"
      [] a = "arm64" -> "arm64"
      [] OTHER -> UNSET

platform == PLATFORM_MAP(rawPlatform)
arch == ARCH_MAP(rawArch)

\* Mutant: && in place of ||.
Unsupported_Both == ~Truthy(platform) /\ ~Truthy(arch)

\* !platform || !arch
Unsupported == ~Truthy(platform) \/ ~Truthy(arch)

tag == "v" \o pkgVersion
DefaultHost == "https://github.com/rarespredoi/easygit/releases/download"
binaryHost == IF Truthy(hostEnv) THEN hostEnv ELSE DefaultHost
\* Mutant: the canonical name is compared with the raw identifier.
isWindows_Canonical == platform = "win32"

isWindows == rawPlatform = "win32"
archiveName ==
    "easygit-" \o platform \o "-" \o arch \o (IF isWindows THEN ".zip" ELSE ".tar.gz")
downloadUrl == binaryHost \o "/" \o tag \o "/" \o archiveName

binDir == "bin"
archivePath == binDir \o "/" \o archiveName
binaryName == IF isWindows THEN "easygit.exe" ELSE "easygit"
binaryPath == binDir \o "/" \o binaryName

\* Mutant: the existence check looks at the archive instead of the binary.
BinaryPresent_Archive == archivePath \in fs

\* fs.existsSync(binaryPath)
BinaryPresent == binaryPath \in fs

(***************************************************************************)
(* Printed lines.                                                          *)
(***************************************************************************)
Msg(kind, a, b, n) == [kind |-> kind, a |-> a, b |-> b, n |-> n]

SkipMsg == Msg("skip", "", "", NoCode)
UnsupportedMsg == Msg("unsupported", rawPlatform, rawArch, NoCode)
DownloadingMsg == Msg("downloading", downloadUrl, "", NoCode)
InstalledMsg == Msg("installed", "", "", NoCode)
ChmodWarnMsg == Msg("chmod_warning", binaryPath, "", NoCode)
FailedMsg == Msg("failed", "", "", NoCode)
ErrorMsg(e) == Msg("error", e.kind, "", e.n)
FallbackMsg == Msg("fallback", downloadUrl, binaryName, NoCode)
UncaughtMsg == Msg("uncaught", "mkdir", "", NoCode)

\* The Error objects the installer's promises reject with.
Err(kind, n) == [kind |-> kind, n |-> n]

(***************************************************************************)
(* Initial states: any host, any environment, a bin directory that may     *)
(* already hold the flat binary and the platform-qualified binary.         *)
(***************************************************************************)
qualifiedPath == binDir \o "/" \o rawPlatform \o "-" \o rawArch \o "/" \o binaryName

Init ==
    /\ rawPlatform \in RawPlatforms
    /\ rawArch \in RawArchs
    /\ skipEnv \in SkipValues
    /\ hostEnv \in HostValues
    /\ pkgVersion \in Versions
    /\ fs \in {{}} \cup {{binDir} \cup s : s \in SUBSET {binaryPath, qualifiedPath}}
    /\ prog = "idle"
    /\ pc = "idle"
    /\ runs = 0
    /\ fsAtStart = fs
    /\ redirects = 0
    /\ requests = 0
    /\ hops = 0
    /\ lastStatus = NoCode
    /\ lastLocation = FALSE
    /\ spawned = 0
    /\ spawnedPath = ""
    /\ spawnOk = TRUE
    /\ archive = "none"
    /\ chmods = 0
    /\ childCode = NoCode
    /\ childSignal = NoSignal
    /\ log = <<>>
    /\ outcome = "Running"
    /\ exitStatus = NoCode
    /\ termSignal = NoSignal

\* A program is started by the package manager or the user.
Start(p) ==
    /\ prog = "idle" \/ pc = "done"
    /\ runs < MaxRuns
    /\ runs' = runs + 1
    /\ prog' = p
    /\ pc' = "main"
    /\ fsAtStart' = fs
    /\ redirects' = 0
    /\ requests' = 0
    /\ hops' = 0
    /\ lastStatus' = NoCode
    /\ lastLocation' = FALSE
    /\ spawned' = 0
    /\ spawnedPath' = ""
    /\ spawnOk' = TRUE
    /\ archive' = "none"
    /\ chmods' = 0
    /\ childCode' = NoCode
    /\ childSignal' = NoSignal
    /\ log' = <<>>
    /\ outcome' = "Running"
    /\ exitStatus' = NoCode
    /\ termSignal' = NoSignal
    /\ UNCHANGED <<env, fs>>

StartInstall == Start("install")

\* process.exit(code)
Exit(code, how) ==
    /\ pc' = "done"
    /\ exitStatus' = code
    /\ outcome' = how
    /\ termSignal' = NoSignal

(***************************************************************************)
(* Installer, synchronous script body (part_000 lines 9-49, 114-117).      *)
(***************************************************************************)
\* lines 9-13
SkipGate ==
    /\ prog = "install" /\ pc = "main"
    /\ SKIP
    /\ log' = Append(log, SkipMsg)
    /\ Exit(0, "Skipped")
    /\ UNCHANGED <<env, inst, fs, prog, runs, fsAtStart, net, spawned, child>>

\* lines 26-32
PlatformGate ==
    /\ prog = "install" /\ pc = "main"
    /\ ~SKIP
    /\ Unsupported
    /\ log' = Append(log, UnsupportedMsg)
    /\ Exit(1, "Failed")
    /\ UNCHANGED <<env, inst, fs, prog, runs, fsAtStart, net, spawned, child>>

\* lines 45-47
AlreadyInstalledGate ==
    /\ prog = "install" /\ pc = "main"
    /\ ~SKIP
    /\ ~Unsupported
    /\ BinaryPresent
    /\ Exit(0, "AlreadyInstalled")
    /\ UNCHANGED <<env, inst, fs, prog, runs, fsAtStart, net, spawned, child, log>>

\* line 49 throws: an uncaught exception ends the process with status 1.
MkdirFails ==
    /\ prog = "install" /\ pc = "main"
    /\ ~SKIP
    /\ ~Unsupported
    /\ ~BinaryPresent
    /\ binDir \notin fs
    /\ log' = Append(log, UncaughtMsg)
    /\ Exit(1, "Failed")
    /\ UNCHANGED <<env, inst, fs, prog, runs, fsAtStart, net, spawned, child>>

\* lines 49, 114-117: mkdir, print the URL, fetch(downloadUrl, archivePath) with
\* redirects = 0 issues the first request.
BeginDownload ==
    /\ prog = "install" /\ pc = "main"
    /\ ~SKIP
    /\ ~Unsupported
    /\ ~BinaryPresent
    /\ fs' = fs \cup {binDir}
    /\ log' = Append(log, DownloadingMsg)
    /\ redirects' = 0
    /\ requests' = requests + 1
    /\ pc' = "request"
    /\ UNCHANGED <<env, inst, prog, runs, fsAtStart, hops, lastStatus, lastLocation,
                   spawned, child, outcome, exitStatus, termSignal>>

(***************************************************************************)
(* Installer, the pipeline's catch block (part_000 lines 122-127).         *)
(***************************************************************************)
\* Mutant: the catch block reports the error and runs the script again
\* instead of exiting.
CatchBlock_Retry(e) ==
    /\ log' = log \o <<FailedMsg, ErrorMsg(e)>>
    /\ pc' = "main"
    /\ UNCHANGED <<outcome, exitStatus, termSignal>>

CatchBlock(e) ==
    /\ log' = log \o <<FailedMsg, ErrorMsg(e), FallbackMsg>>
    /\ Exit(1, "Failed")

(***************************************************************************)
(* fetch (part_000 lines 51-79): the response callback of the request in   *)
(* flight.  The server answers with any status, with or without a          *)
(* Location header.                                                        *)
(***************************************************************************)
RedirectLimit == 5

\* Mutant: the Location header is not looked at.
IsRedirect_AnyLocation(status, location) == status >= 300 /\ status < 400

\* line 54
IsRedirect(status, location) == status >= 300 /\ status < 400 /\ location

\* line 55
TooMany(n) == n > RedirectLimit

\* lines 54-63
ResponseRedirect(status, location) ==
    /\ prog = "install" /\ pc = "request"
    /\ IsRedirect(status, location)
    /\ hops < MaxServerRedirects
    /\ hops' = hops + 1
    /\ lastStatus' = status
    /\ lastLocation' = location
    /\ IF TooMany(redirects)
       THEN /\ CatchBlock(Err("TooManyRedirects", NoCode))
            /\ UNCHANGED <<redirects, requests>>
       ELSE /\ redirects' = redirects + 1
            /\ requests' = requests + 1
            /\ UNCHANGED <<pc, log, outcome, exitStatus, termSignal>>
    /\ UNCHANGED <<env, inst, fs, prog, runs, fsAtStart, spawned, child>>

\* lines 65-69
ResponseFailed(status, location) ==
    /\ prog = "install" /\ pc = "request"
    /\ ~IsRedirect(status, location)
    /\ status # 200
    /\ lastStatus' = status
    /\ lastLocation' = location
    /\ CatchBlock(Err("DownloadFailed", status))
    /\ UNCHANGED <<env, inst, fs, prog, runs, fsAtStart, redirects, requests, hops,
                   spawned, child>>

\* Mutant: the promise is resolved when the response arrives, not when the
\* file is closed, so the pipeline spawns the extractor at once.
ResponseOk_ResolveOnResponse(status, location) ==
    /\ prog = "install" /\ pc = "request"
    /\ ~IsRedirect(status, location)
    /\ status = 200
    /\ lastStatus' = status
    /\ lastLocation' = location
    /\ fs' = fs \cup {archivePath}
    /\ archive' = "open"
    /\ spawned' = spawned + 1
    /\ pc' = "extracting"
    /\ UNCHANGED <<env, chmods, prog, runs, fsAtStart, redirects, requests, hops,
                   child, log, outcome, exitStatus, termSignal>>

\* lines 71-74: the write stream creates the destination file and the body
\* is piped into it.
ResponseOk(status, location) ==
    /\ prog = "install" /\ pc = "request"
    /\ ~IsRedirect(status, location)
    /\ status = 200
    /\ lastStatus' = status
    /\ lastLocation' = location
    /\ fs' = fs \cup {archivePath}
    /\ archive' = "open"
    /\ pc' = "streaming"
    /\ UNCHANGED <<env, chmods, prog, runs, fsAtStart, redirects, requests, hops, spawned,
                   child, log, outcome, exitStatus, termSignal>>

\* line 77: the request fails before a response or the socket errors while
\* the body streams; either way the request emits 'error'.
RequestError ==
    /\ prog = "install" /\ pc \in {"request", "streaming"}
    /\ CatchBlock(Err("NetworkError", NoCode))
    /\ UNCHANGED <<env, inst, fs, prog, runs, fsAtStart, net, spawned, child>>

\* line 74
FileError ==
    /\ prog = "install" /\ pc = "streaming"
    /\ CatchBlock(Err("WriteError", NoCode))
    /\ UNCHANGED <<env, inst, fs, prog, runs, fsAtStart, net, spawned, child>>

\* lines 72-73: the connection closes before the body is complete.  The
\* response is destroyed ('aborted'); it has no 'error' listener, pipe does
\* not end the file, so neither 'finish' nor a rejection follows.  With the
\* promise pending and nothing left to wait for, the event loop drains and
\* the process ends with status 0, the partial archive left behind.
BodyAborted ==
    /\ prog = "install" /\ pc = "streaming"
    /\ Exit(0, "Unsettled")
    /\ UNCHANGED <<env, inst, fs, prog, runs, fsAtStart, net, spawned, child, log>>

\* line 73: the body ended, the file emitted 'finish', file.close is called.
FileFinish ==
    /\ prog = "install" /\ pc = "streaming"
    /\ pc' = "closing"
    /\ archive' = "finished"
    /\ UNCHANGED <<env, chmods, fs, prog, runs, fsAtStart, net, spawned, child, log,
                   outcome, exitStatus, termSignal>>

(***************************************************************************)
(* extract (part_000 lines 81-100).                                        *)
(***************************************************************************)
\* line 73 and lines 118, 90/96: close's callback resolves fetch's promise and
\* the pipeline spawns powershell (windows) or tar.
FileClosed ==
    /\ prog = "install" /\ pc = "closing"
    /\ archive' = "closed"
    /\ spawned' = spawned + 1
    /\ pc' = "extracting"
    /\ UNCHANGED <<env, chmods, fs, prog, runs, fsAtStart, net, child, log, outcome,
                   exitStatus, termSignal>>

\* lines 92/98
ExtractorSpawnError ==
    /\ prog = "install" /\ pc = "extracting"
    /\ CatchBlock(Err("SpawnError", NoCode))
    /\ UNCHANGED <<env, inst, fs, prog, runs, fsAtStart, net, spawned, child>>

\* lines 91/97: code === 0 ? resolve() : reject(...)
ExtractOk(code) == code = 0

\* lines 91/97 with a failing extractor (code is null when a signal ended it).
\* The extractor may have written the binary before failing.
ExtractorFails(code, wrote) ==
    /\ prog = "install" /\ pc = "extracting"
    /\ ~ExtractOk(code)
    /\ fs' = IF wrote THEN fs \cup {binaryPath} ELSE fs
    /\ CatchBlock(Err("ExtractionFailed", code))
    /\ UNCHANGED <<env, inst, prog, runs, fsAtStart, net, spawned, child>>

(***************************************************************************)
(* ensureExecutable and cleanup (part_000 lines 102-121).                  *)
(***************************************************************************)
\* lines 103-111: the lines ensureExecutable prints.  chmodSync throws when
\* the file is missing, and may throw otherwise.
\* lines 103-108: ensureExecutable returns before chmodSync on windows.
ChmodCalls == IF isWindows THEN 0 ELSE 1

EnsureExecutable(present, chmodThrows) ==
    IF isWindows THEN <<>>
    ELSE IF ~present \/ chmodThrows THEN <<ChmodWarnMsg>>
    ELSE <<>>

\* Mutant: ensureExecutable's catch prints the warning and rethrows.
ExtractorSucceeds_ChmodFatal(code, wrote, chmodThrows, rmThrows) ==
    /\ prog = "install" /\ pc = "extracting"
    /\ ExtractOk(code)
    /\ LET unpacked == IF wrote THEN fs \cup {binaryPath} ELSE fs
           warning == EnsureExecutable(binaryPath \in unpacked, chmodThrows)
       IN  IF warning # <<>> \/ rmThrows
           THEN /\ fs' = unpacked
                /\ log' = log \o warning
                             \o <<FailedMsg,
                                  ErrorMsg(Err(IF warning # <<>> THEN "ChmodError"
                                               ELSE "CleanupError", NoCode)),
                                  FallbackMsg>>
                /\ Exit(1, "Failed")
           ELSE /\ fs' = unpacked \ {archivePath}
                /\ log' = Append(log, InstalledMsg)
                /\ Exit(0, "Installed")
    /\ chmods' = chmods + ChmodCalls
    /\ UNCHANGED <<env, archive, prog, runs, fsAtStart, net, spawned, child>>

\* lines 91/97, 119-121: the extractor exits with 0, having unpacked whatever
\* the archive holds; then ensureExecutable, rmSync, the final message.  The
\* process ends with status 0 when the pipeline returns.
ExtractorSucceeds(code, wrote, chmodThrows, rmThrows) ==
    /\ prog = "install" /\ pc = "extracting"
    /\ ExtractOk(code)
    /\ LET unpacked == IF wrote THEN fs \cup {binaryPath} ELSE fs
           warned == log \o EnsureExecutable(binaryPath \in unpacked, chmodThrows)
       IN  IF rmThrows
           THEN /\ fs' = unpacked
                /\ log' = warned \o <<FailedMsg, ErrorMsg(Err("CleanupError", NoCode)),
                                      FallbackMsg>>
                /\ Exit(1, "Failed")
           ELSE /\ fs' = unpacked \ {archivePath}
                /\ log' = Append(warned, InstalledMsg)
                /\ Exit(0, "Installed")
    /\ chmods' = chmods + ChmodCalls
    /\ UNCHANGED <<env, archive, prog, runs, fsAtStart, net, spawned, child>>

ExtractCodes == (0 .. MaxExtractCode) \cup {NoCode}

(***************************************************************************)
(* Launchers.  Both scripts resolve paths against the package's bin        *)
(* directory, the installer's binDir.                                      *)
(***************************************************************************)
\* The arguments of a child's 'exit' event: a code and no signal, or a
\* signal and no code.
ExitEvents ==
    {<<code, NoSignal>> : code \in 0 .. MaxExitCode} \cup {<<NoCode, s>> : s \in Signals}

StartLauncherBin == Start("launcher_bin")
StartLauncherRoot == Start("launcher_root")

\* process.kill(process.pid, signal): the launcher dies of the signal.
Kill(signal) ==
    /\ pc' = "done"
    /\ termSignal' = signal
    /\ exitStatus' = NoCode
    /\ outcome' = "Signalled"

(***************************************************************************)
(* Bin launcher (npm/bin/easygit.js).                                      *)
(***************************************************************************)
BinNotFoundMsg == Msg("not_found", binaryPath, "", NoCode)
BinHintMsg == Msg("hint", "reinstall", "", NoCode)
BinLaunchErrorMsg == Msg("launch_error", "", "", NoCode)

\* lines 9-13
BinNotFound ==
    /\ prog = "launcher_bin" /\ pc = "main"
    /\ binaryPath \notin fs
    /\ log' = log \o <<BinNotFoundMsg, BinHintMsg>>
    /\ Exit(1, "BinaryNotFound")
    /\ UNCHANGED <<env, inst, fs, prog, runs, fsAtStart, net, spawned, child>>

\* line 15: spawn returns a handle whether or not the binary can be executed.
BinSpawn(ok) ==
    /\ prog = "launcher_bin" /\ pc = "main"
    /\ binaryPath \in fs
    /\ spawned' = spawned + 1
    /\ spawnedPath' = binaryPath
    /\ spawnOk' = ok
    /\ pc' = "child"
    /\ UNCHANGED <<env, inst, fs, prog, runs, fsAtStart, net, childCode, childSignal, log,
                   outcome, exitStatus, termSignal>>

\* line 21: code === undefined ? 0 : code
BinExitCode(code) == IF code = Undefined THEN 0 ELSE code

\* line 18: if (signal)
BinSignalled(signal) == signal # NoSignal

\* lines 17-23
BinChildExit(code, signal) ==
    /\ prog = "launcher_bin" /\ pc = "child"
    /\ spawnOk
    /\ childCode' = code
    /\ childSignal' = signal
    /\ IF BinSignalled(signal)
       THEN Kill(signal)
       ELSE Exit(BinExitCode(code), "Delegated")
    /\ UNCHANGED <<env, inst, fs, prog, runs, fsAtStart, net, spawned, spawnedPath,
                   spawnOk, log>>

\* lines 25-28: a child that could not be started emits 'error' and no 'exit'.
BinChildError ==
    /\ prog = "launcher_bin" /\ pc = "child"
    /\ ~spawnOk
    /\ log' = Append(log, BinLaunchErrorMsg)
    /\ Exit(1, "SpawnError")
    /\ UNCHANGED <<env, inst, fs, prog, runs, fsAtStart, net, spawned, child>>

(***************************************************************************)
(* Root launcher (part_001).                                               *)
(***************************************************************************)
\* lines 7-10
candidates == <<qualifiedPath, binaryPath>>

\* Mutant: the first candidate is taken without the existence check.
binPath_First == candidates[1]

\* line 12: candidates.find(fs.existsSync); UNSET when none exists.
binPath ==
    LET found == {i \in 1 .. Len(candidates) : candidates[i] \in fs}
    IN  IF found = {} THEN UNSET
        ELSE candidates[CHOOSE i \in found : \A j \in found : i <= j]

\* candidates.join(", ")
JoinCandidates == candidates[1] \o ", " \o candidates[2]

RootNotFoundMsg == Msg("not_found", JoinCandidates, "cargo build --release", NoCode)
RootLaunchErrorMsg == Msg("start_error", "", "", NoCode)

\* lines 14-20
RootNotFound ==
    /\ prog = "launcher_root" /\ pc = "main"
    /\ ~Truthy(binPath)
    /\ log' = Append(log, RootNotFoundMsg)
    /\ Exit(1, "BinaryNotFound")
    /\ UNCHANGED <<env, inst, fs, prog, runs, fsAtStart, net, spawned, child>>

\* lines 22-24
RootSpawn(ok) ==
    /\ prog = "launcher_root" /\ pc = "main"
    /\ Truthy(binPath)
    /\ spawned' = spawned + 1
    /\ spawnedPath' = binPath
    /\ spawnOk' = ok
    /\ pc' = "child"
    /\ UNCHANGED <<env, inst, fs, prog, runs, fsAtStart, net, childCode, childSignal, log,
                   outcome, exitStatus, termSignal>>

\* Mutant: any failure of the child is reported as 1.
RootExitCode_Flattened(code) == IF code = NoCode \/ code = 0 THEN 0 ELSE 1

\* line 27: code ?? 0
RootExitCode(code) == IF code = NoCode THEN 0 ELSE code

\* lines 26-28: the handler takes the code alone.
RootChildExit(code, signal) ==
    /\ prog = "launcher_root" /\ pc = "child"
    /\ spawnOk
    /\ childCode' = code
    /\ childSignal' = signal
    /\ Exit(RootExitCode(code), "Delegated")
    /\ UNCHANGED <<env, inst, fs, prog, runs, fsAtStart, net, spawned, spawnedPath,
                   spawnOk, log>>

\* Mutant: the handler prints the message and does not call process.exit;
\* with nothing left to wait for the process then ends with status 0.
RootChildError_NoExit ==
    /\ prog = "launcher_root" /\ pc = "child"
    /\ ~spawnOk
    /\ log' = Append(log, RootLaunchErrorMsg)
    /\ Exit(0, "SpawnError")
    /\ UNCHANGED <<env, inst, fs, prog, runs, fsAtStart, net, spawned, child>>

\* lines 30-33: a child that could not be started emits 'error' and no 'exit'.
RootChildError ==
    /\ prog = "launcher_root" /\ pc = "child"
    /\ ~spawnOk
    /\ log' = Append(log, RootLaunchErrorMsg)
    /\ Exit(1, "SpawnError")
    /\ UNCHANGED <<env, inst, fs, prog, runs, fsAtStart, net, spawned, child>>

Next ==
    \/ StartInstall
    \/ StartLauncherBin
    \/ StartLauncherRoot
    \/ SkipGate
    \/ PlatformGate
    \/ AlreadyInstalledGate
    \/ MkdirFails
    \/ BeginDownload
    \/ \E status \in Statuses, location \in BOOLEAN :
          \/ ResponseRedirect(status, location)
          \/ ResponseFailed(status, location)
          \/ ResponseOk(status, location)
    \/ RequestError
    \/ FileError
    \/ BodyAborted
    \/ FileFinish
    \/ FileClosed
    \/ ExtractorSpawnError
    \/ \E code \in ExtractCodes, wrote \in BOOLEAN :
          ExtractorFails(code, wrote)
    \/ \E code \in ExtractCodes, wrote \in BOOLEAN, chmodThrows \in BOOLEAN,
          rmThrows \in BOOLEAN :
          ExtractorSucceeds(code, wrote, chmodThrows, rmThrows)
    \/ BinNotFound
    \/ \E ok \in BOOLEAN : BinSpawn(ok)
    \/ BinChildError
    \/ RootNotFound
    \/ \E ok \in BOOLEAN : RootSpawn(ok)
    \/ RootChildError
    \/ \E ev \in ExitEvents :
          \/ BinChildExit(ev[1], ev[2])
          \/ RootChildExit(ev[1], ev[2])

Spec == Init /\ [][Next]_vars

(***************************************************************************)
(* Properties.                                                             *)
(***************************************************************************)
Installing == prog = "install"
InstallDone == prog = "install" /\ pc = "done"
Launching == prog \in {"launcher_bin", "launcher_root"}
LaunchDone == Launching /\ pc = "done"

\* The run printed err.message of an error of this kind.
Rejected(kind) == \E i \in 1 .. Len(log) : log[i].kind = "error" /\ log[i].a = kind
Printed(m) == \E i \in 1 .. Len(log) : log[i] = m

\* C1: a chain of at most 5 redirects is never rejected with TooManyRedirects,
\* and after 6 consecutive redirects the fetch is rejected with
\* TooManyRedirects without a 7th request having been issued.
C1_RedirectChainLimit ==
    Installing =>
        /\ hops <= 5 => ~Rejected("TooManyRedirects")
        /\ hops >= 6 => Rejected("TooManyRedirects") /\ pc = "done"
        /\ requests <= 6

\* C2: a launcher whose child was ended by a signal ends by that same signal
\* and never calls exit with a code.
C2_SignalRedelivered ==
    LaunchDone /\ childSignal # NoSignal =>
        termSignal = childSignal /\ exitStatus = NoCode

\* C3: a launcher whose child exited with code n exits with exactly n.
C3_ExitCodePropagated ==
    LaunchDone /\ spawned = 1 /\ childCode # NoCode =>
        exitStatus = childCode /\ termSignal = NoSignal

C3_Witness ==
    /\ prog = "launcher_root" /\ pc = "done"
    /\ childCode = 3 /\ exitStatus = 3

\* What the claim of C4 promises of a run.
NoOpSuccess ==
    /\ requests = 0
    /\ spawned = 0
    /\ fs = fsAtStart
    /\ pc \in {"main", "done"}
    /\ pc = "done" => exitStatus = 0 /\ termSignal = NoSignal

\* C4 as stated: every install run that starts with the binary at its target
\* path issues no request, spawns nothing, writes nothing and exits with 0.
C4_Original == Installing /\ binaryPath \in fsAtStart => NoOpSuccess

\* C4 amended: the same, for runs on a host whose platform and architecture
\* are both in the mapping table, or with the skip variable set to 1.
C4_AlreadyInstalledNoOp ==
    Installing /\ binaryPath \in fsAtStart /\ (skipEnv = "1" \/ ~Unsupported) =>
        NoOpSuccess

C4_Witness ==
    /\ InstallDone /\ binaryPath \in fsAtStart
    /\ skipEnv # "1" /\ ~Unsupported
    /\ outcome = "AlreadyInstalled" /\ exitStatus = 0

\* C5: an install run that ends otherwise than Skipped, AlreadyInstalled or
\* Installed has exited with a non-zero status.
C5_FailuresExitNonZero ==
    InstallDone /\ outcome \notin {"Skipped", "AlreadyInstalled", "Installed"} =>
        exitStatus > 0

\* The last response was neither a 200 nor a redirect that fetch follows.
FinalStatusBad ==
    /\ lastStatus # NoCode
    /\ lastStatus # 200
    /\ ~(lastStatus >= 300 /\ lastStatus < 400 /\ lastLocation)

\* C6: a final response with a status that is neither 200 nor a followed
\* redirect rejects with DownloadFailed carrying that status; no extractor is
\* spawned, no further request is issued, no archive file is created and the
\* installer has exited with 1.  DownloadFailed arises in no other way.
C6_DownloadFailed ==
    Installing =>
        /\ FinalStatusBad <=> Rejected("DownloadFailed")
        /\ FinalStatusBad =>
              /\ Printed(ErrorMsg(Err("DownloadFailed", lastStatus)))
              /\ pc = "done" /\ exitStatus = 1
              /\ spawned = 0
              /\ requests = hops + 1
              /\ archivePath \notin fs \ fsAtStart

C6_Witness ==
    /\ InstallDone /\ lastStatus = 404 /\ hops = 2
    /\ Rejected("DownloadFailed")

\* C7: every install run that failed in platform resolution, fetch,
\* extraction or cleanup has printed an error and then the download URL with
\* the binary's filename, and has exited with a failure status.
C7_FailurePrintsFallback ==
    InstallDone /\ outcome \in {"Failed", "Unsettled"} /\ ~Printed(UncaughtMsg) =>
        /\ exitStatus > 0
        /\ \E i \in 1 .. Len(log) : \E j \in 1 .. Len(log) :
              /\ i < j
              /\ log[i].kind = "error"
              /\ log[j].kind = "fallback"
              /\ log[j].a = downloadUrl
              /\ log[j].b = binaryName

\* C8: with EASYGIT_SKIP_POSTINSTALL equal to 1 the run does nothing but
\* print the skip line and exit with 0, whatever the host and the bin
\* directory; with any other value the skip branch is not taken.
C8_SkipGate ==
    Installing =>
        /\ skipEnv = "1" =>
              /\ pc \in {"main", "done"}
              /\ requests = 0 /\ spawned = 0 /\ fs = fsAtStart
              /\ pc = "done" =>
                    /\ exitStatus = 0
                    /\ outcome = "Skipped"
                    /\ log = <<SkipMsg>>
        /\ skipEnv # "1" => outcome # "Skipped" /\ ~Printed(SkipMsg)

C8_Witness ==
    /\ InstallDone /\ skipEnv = "1" /\ exitStatus = 0
    /\ rawPlatform = "freebsd" /\ binaryPath \in fs

\* The mapping table of the platform resolver: raw platform, raw arch,
\* canonical platform, canonical arch.
MappingTable ==
    { <<"darwin", "x64", "macos", "x64">>, <<"darwin", "arm64", "macos", "arm64">>,
      <<"linux", "x64", "linux", "x64">>, <<"linux", "arm64", "linux", "arm64">>,
      <<"win32", "x64", "windows", "x64">>, <<"win32", "arm64", "windows", "arm64">> }

InTable == \E t \in MappingTable : t[1] = rawPlatform /\ t[2] = rawArch
Canonical == CHOOSE t \in MappingTable : t[1] = rawPlatform /\ t[2] = rawArch

\* C9: past the skip gate, a host in the mapping table resolves to the
\* table's canonical pair and the run proceeds; any other host fails with the
\* unsupported-platform line naming both raw values, exit status 1, no
\* request and no write.
C9_PlatformResolution ==
    Installing /\ skipEnv # "1" /\ pc # "main" =>
        IF InTable
        THEN /\ platform = Canonical[3] /\ arch = Canonical[4]
             /\ ~Printed(UnsupportedMsg)
             /\ outcome = "AlreadyInstalled" \/ Printed(UncaughtMsg) \/ requests >= 1
        ELSE /\ pc = "done"
             /\ log = <<Msg("unsupported", rawPlatform, rawArch, NoCode)>>
             /\ exitStatus = 1
             /\ requests = 0 /\ spawned = 0 /\ fs = fsAtStart

C9_Witness ==
    /\ InstallDone /\ skipEnv # "1"
    /\ rawPlatform = "linux" /\ rawArch = "ia32"
    /\ exitStatus = 1 /\ Printed(UnsupportedMsg)

\* The URL the release locator's contract gives for the resolved host.
ExpectedUrl ==
    LET host == IF hostEnv # UNSET /\ hostEnv # "" THEN hostEnv
                ELSE "https://github.com/rarespredoi/easygit/releases/download"
        ext == IF Canonical[3] = "windows" THEN ".zip" ELSE ".tar.gz"
    IN  host \o "/v" \o pkgVersion \o "/easygit-" \o Canonical[3] \o "-"
             \o Canonical[4] \o ext

\* C10: the URL the installer announces and requests is
\* <host>/v<version>/easygit-<platform>-<arch><ext>, with .zip exactly for
\* windows and the default host exactly when no non-empty override is set.
C10_DownloadUrl ==
    Installing /\ requests >= 1 =>
        /\ InTable
        /\ log[1] = Msg("downloading", ExpectedUrl, "", NoCode)
        /\ downloadUrl = ExpectedUrl

C10_Witness ==
    /\ Installing /\ requests >= 1
    /\ rawPlatform = "win32" /\ rawArch = "arm64" /\ hostEnv = "https://h"
    /\ pkgVersion = "1.2.3"
    /\ log[1].a = "https://h/v1.2.3/easygit-windows-arm64.zip"

\* C11: a launcher that finds the binary at none of its candidate paths
\* prints every path it checked, exits with 1 and spawns no child.
C11_BinaryNotFound ==
    LET flat == "bin/" \o binaryName
        qualified == "bin/" \o rawPlatform \o "-" \o rawArch \o "/" \o binaryName
        checked == IF prog = "launcher_root" THEN {qualified, flat} ELSE {flat}
        listed == IF prog = "launcher_root" THEN qualified \o ", " \o flat ELSE flat
    IN  Launching /\ checked \cap fsAtStart = {} =>
            /\ spawned = 0
            /\ pc \in {"main", "done"}
            /\ pc = "done" =>
                  /\ outcome = "BinaryNotFound"
                  /\ exitStatus = 1 /\ termSignal = NoSignal
                  /\ log[1].kind = "not_found" /\ log[1].a = listed

C11_Witness ==
    /\ prog = "launcher_root" /\ pc = "done"
    /\ fsAtStart = {binDir}
    /\ exitStatus = 1 /\ log[1].kind = "not_found"

\* C12: a failing chmod alone is not fatal: off windows, a run that printed
\* the chmod warning and whose cleanup did not throw has removed the
\* archive, printed the installed line and exited with 0; on windows chmod
\* is never called.
C12_ChmodFailureNonFatal ==
    Installing =>
        /\ isWindows => chmods = 0 /\ ~Printed(ChmodWarnMsg)
        /\ Printed(ChmodWarnMsg) /\ ~Rejected("CleanupError") =>
              /\ chmods = 1
              /\ pc = "done" /\ outcome = "Installed"
              /\ exitStatus = 0
              /\ archivePath \notin fs
              /\ log[Len(log)] = InstalledMsg
              /\ ~Printed(FailedMsg)

C12_Witness ==
    /\ InstallDone /\ rawPlatform = "linux"
    /\ Printed(ChmodWarnMsg) /\ binaryPath \in fs
    /\ outcome = "Installed" /\ exitStatus = 0

FetchErrors == {"TooManyRedirects", "DownloadFailed", "NetworkError", "WriteError"}
FetchRejected == \E k \in FetchErrors : Rejected(k)

\* C13: the extractor runs only once the archive has been written, finished
\* and closed after a 200 response, and never after a failed download.
C13_ExtractAfterDownload ==
    Installing =>
        /\ spawned >= 1 \/ pc = "extracting" =>
              archive = "closed" /\ lastStatus = 200 /\ ~FetchRejected
        /\ archive \in {"open", "finished"} => spawned = 0
        /\ FetchRejected => spawned = 0

C13_Witness ==
    /\ Installing /\ pc = "extracting" /\ spawned = 1
    /\ archive = "closed" /\ hops = 1

\* C14: with every request answered, an install run that issued a request
\* ends only after fetch has settled (its promise resolved, the archive
\* closed, or rejected), and it issued a bounded number of requests.
C14_FetchSettles ==
    InstallDone /\ requests >= 1 =>
        /\ requests <= RedirectLimit + 2
        /\ archive = "closed" \/ FetchRejected

\* The pipeline's positions in their order.
Rank(p) ==
    CASE p = "main" -> 1
      [] p = "request" -> 2
      [] p = "streaming" -> 3
      [] p = "closing" -> 4
      [] p = "extracting" -> 5
      [] p = "done" -> 6

Downloads(l) == Cardinality({i \in 1 .. Len(l) : l[i].kind = "downloading"})

\* C15: within an install run every step moves forward in the pipeline's
\* order (only a followed redirect stays where it is, in the download), the
\* download is started at most once, the extractor is spawned at most once,
\* and a run that has ended takes no further step.
C15_NoReentry ==
    [][prog = "install" /\ prog' = "install" /\ runs' = runs =>
          /\ pc # "done"
          /\ Rank(pc') >= Rank(pc)
          /\ Rank(pc') = Rank(pc) => pc = "request" /\ requests' = requests + 1
          /\ Downloads(log') <= 1
          /\ spawned' <= 1]_vars

C15_Witness ==
    /\ InstallDone /\ outcome = "Installed"
    /\ hops = 2 /\ spawned = 1 /\ Downloads(log) = 1

\* C16: a launcher that spawned a child spawned the qualified path if it
\* exists and the flat path otherwise, and the path it spawned exists.
C16_QualifiedFirst ==
    Launching /\ spawned = 1 =>
        /\ spawnedPath \in fsAtStart
        /\ spawnedPath = IF qualifiedPath \in fsAtStart THEN qualifiedPath
                         ELSE binaryPath

\* C17: a launcher whose child could not be started prints its launch-failure
\* line and exits with 1, never with 0, a child's code or a signal; and once
\* a launcher has ended its status does not change.
C17_SpawnErrorReported ==
    /\ [](LaunchDone /\ spawned = 1 /\ ~spawnOk =>
            /\ exitStatus = 1 /\ termSignal = NoSignal
            /\ outcome = "SpawnError"
            /\ childCode = NoCode /\ childSignal = NoSignal
            /\ Len(log) = 1 /\ log[1].kind \in {"launch_error", "start_error"})
    /\ [][LaunchDone /\ runs' = runs => UNCHANGED <<exitStatus, termSignal, log>>]_vars

C17_Witness ==
    /\ prog = "launcher_bin" /\ pc = "done"
    /\ spawned = 1 /\ ~spawnOk
    /\ exitStatus = 1 /\ Printed(BinLaunchErrorMsg)

\* C18: after an install run that exited with 0 through AlreadyInstalled or
\* Installed, the binary exists at a path the launchers search.
C18_InstalledBinaryFound ==
    InstallDone /\ exitStatus = 0 /\ outcome \in {"AlreadyInstalled", "Installed"} =>
        binaryPath \in fs /\ binPath # UNSET

\* C19: an install run that started without the binary and ended in Failed
\* leaves no file at the binary's path.
C19_FailedLeavesNoBinary ==
    InstallDone /\ outcome = "Failed" /\ binaryPath \notin fsAtStart =>
        binaryPath \notin fs
=============================================================================
